---- MODULE Spec2Model ----
(***************************************************************************)
(* rproxychainsd: one SOCKS4/SOCKS5 session tunnelled through a chain of   *)
(* upstream SOCKS proxies (src/session.rs, src/socks4.rs, src/socks5.rs,   *)
(* src/socks.rs, src/config.rs).                                           *)
(*                                                                         *)
(* A socket is modelled by the byte sequence its peer has sent (cl_in,     *)
(* up_in), the read position of the session in it (cl_pos, up_pos), the    *)
(* byte sequence the socket has accepted from the session (client_out,     *)
(* upstream_out), a status (open / eof / err) and a writable flag.         *)
(* An action is one await point of Session::run and of the functions it    *)
(* calls; the peers (client, upstream chain) are the environment.          *)
(***************************************************************************)
EXTENDS Integers, Sequences, FiniteSets, TLC

\* ------------------------------------------------------------------ bounds

\* Largest number of stages of the chain specification.
MaxStages == 2
\* Largest number of payload bytes each peer sends after the handshake.
MaxPayload == 2
\* Largest number of clients the server accepts.
MaxSessions == 2

\* ---------------------------------------------------------------- constants

\* session.rs:180-181, the relay buffers [0u8; 512].
RelayBufLen == 512
\* socks4.rs:101, the SOCKS4 success code.
Socks4Granted == 90

\* ------------------------------------------------------------------ helpers

Min(a, b) == IF a < b THEN a ELSE b

\* write_u16 / write_u32 of tokio's AsyncWriteExt: big-endian.
BE16(x) == << (x \div 256) % 256, x % 256 >>
BE32(x) == << (x \div 16777216) % 256, (x \div 65536) % 256,
              (x \div 256) % 256, x % 256 >>

\* read_u16 / read_u32 of tokio's AsyncReadExt at offset p (0-based) of s.
U16At(s, p) == s[p + 1] * 256 + s[p + 2]
U32At(s, p) == s[p + 1] * 16777216 + s[p + 2] * 65536 + s[p + 3] * 256 + s[p + 4]

\* ------------------------------------------------------------------ config

\* config.rs:29-32, enum Proxy { Socks4(ip, port), Socks5(ip, port) }.
Proxy(variant, ip, port) == [variant |-> variant, ip |-> ip, port |-> port]

\* The candidates of stage i: one SOCKS4 and one SOCKS5 proxy, with addresses
\* that differ between stages and between candidates (10.1.i.4:1080+i and
\* 10.2.i.5:2080+i).
StageEntries(i) ==
    { Proxy("Socks4", 167837700 + 256 * i, 1080 + i),
      Proxy("Socks5", 167903237 + 256 * i, 2080 + i) }

\* config.rs:46,126-136: Chains, a non-empty list of stages; config.rs:36,
\* 114-124: ChainEntries, a non-empty list of proxies.
ChainsOf(m) == [i \in 1..m |-> StageEntries(i)]

\* ------------------------------------------------------------ SOCKS4 codec

KindByte(kind) == IF kind = "Connect" THEN 1 ELSE 2

Command(ver, kind, ip, port) == [ver |-> ver, kind |-> kind, ip |-> ip, port |-> port]

\* A Socks4Command::write that emits DSTIP before DSTPORT.
Socks4Command_write_IpFirst(c) ==
    <<4, KindByte(c.kind)>> \o BE32(c.ip) \o BE16(c.port) \o <<0>>

\* socks4.rs:32-53
Socks4Command_write(c) ==
    <<4, KindByte(c.kind)>> \o BE16(c.port) \o BE32(c.ip) \o <<0>>

\* socks4.rs:110-119
Socks4Reply_write(ip, port) ==
    <<0, Socks4Granted>> \o BE16(port) \o BE32(ip)

\* ------------------------------------------------------------ SOCKS5 codec

\* socks5.rs:67-75
write_socks5_auth == <<5, 1, 0>>

\* socks5.rs:57-65
write_socks5_auth_reply == <<5, 0>>

\* socks5.rs:97-119
Socks5Command_write(c) ==
    <<5, KindByte(c.kind), 0, 1>> \o BE32(c.ip) \o BE16(c.port)

\* A Socks5Reply::write that emits BNDPORT before BNDADDR.
Socks5Reply_write_PortFirst(ip, port) ==
    <<5, 0, 0, 1>> \o BE16(port) \o BE32(ip)

\* socks5.rs:203-214
Socks5Reply_write(ip, port) ==
    <<5, 0, 0, 1>> \o BE32(ip) \o BE16(port)

\* socks5.rs:229-236, impl From<&Socks4Command> for Socks5Command
Socks5Command_from(c) ==
    IF c.kind = "Connect" THEN Command(5, "Connect", c.ip, c.port)
    ELSE Command(5, "Bind", c.ip, c.port)

\* A conversion that turns every command into CONNECT.
Socks4Command_from_AlwaysConnect(c) == Command(4, "Connect", c.ip, c.port)

\* socks4.rs:134-141, impl From<&Socks5Command> for Socks4Command
Socks4Command_from(c) ==
    IF c.kind = "Connect" THEN Command(4, "Connect", c.ip, c.port)
    ELSE Command(4, "Bind", c.ip, c.port)

\* ------------------------------------------------------------------ readers
\* A reader is evaluated on the bytes the peer has sent so far (in), the
\* session's read position (pos, the number of bytes already consumed) and
\* the socket's status. Its result is
\*   st = "ok"      the frame was read: n bytes consumed, kind/ip/port/code set
\*   st = "err"     the reader returned Err(err) after consuming n bytes
\*   st = "pending" the next read_* awaits bytes that have not arrived

Res(st, err, code, n, kind, ip, port) ==
    [st |-> st, err |-> err, code |-> code, n |-> n, kind |-> kind,
     ip |-> ip, port |-> port]

ResOk(n, kind, ip, port) == Res("ok", "none", 0, n, kind, ip, port)
ResErr(err, code, n) == Res("err", err, code, n, "none", 0, 0)
ResPending == Res("pending", "none", 0, 0, "none", 0, 0)

\* read_exact of k more bytes at pos: "ok" when they have arrived, "io" when
\* the socket has failed or reached EOF before them (UnexpectedEof), else
\* "pending".
Fetch(in, pos, k, sock) ==
    IF sock = "err" THEN "io"
    ELSE IF Len(in) - pos >= k THEN "ok"
    ELSE IF sock = "eof" THEN "io"
    ELSE "pending"

NotReady(f, n) == IF f = "io" THEN ResErr("IOError", 0, n) ELSE ResPending

\* A read_version that takes every byte other than 4 for SOCKS5.
read_version_AcceptsAny(in, pos, sock) ==
    LET f == Fetch(in, pos, 1, sock) IN
    IF f # "ok" THEN NotReady(f, 0)
    ELSE IF in[pos + 1] = 4 THEN ResOk(1, "Socks4", 0, 0)
    ELSE ResOk(1, "Socks5", 0, 0)

\* socks.rs:21-30
read_version(in, pos, sock) ==
    LET f == Fetch(in, pos, 1, sock) IN
    IF f # "ok" THEN NotReady(f, 0)
    ELSE IF in[pos + 1] = 4 THEN ResOk(1, "Socks4", 0, 0)
    ELSE IF in[pos + 1] = 5 THEN ResOk(1, "Socks5", 0, 0)
    ELSE ResErr("UnsupportedVersion", 0, 1)

\* socks4.rs:122-132 and socks5.rs:217-227, TryFrom<u8> for the command type
CommandType_try_from(value) ==
    IF value = 1 THEN "Connect" ELSE IF value = 2 THEN "Bind" ELSE "ProtocolError"

\* A USERID loop that reads one byte and stops.
UserIdLen_OneByte(in, p) == IF p >= Len(in) THEN 0 ELSE 1

\* socks4.rs:64, `while stream.read_u8().await? != 0 {}`: the number of bytes
\* the loop consumes from offset p on, up to and including the first zero
\* byte, or 0 when no zero byte has arrived.
UserIdLen(in, p) ==
    LET zeros == { i \in (p + 1)..Len(in) : in[i] = 0 } IN
    IF zeros = {} THEN 0
    ELSE (CHOOSE i \in zeros : \A j \in zeros : i <= j) - p

\* socks4.rs:55-70 (the version byte has been consumed by read_version)
Socks4Command_read(in, pos, sock) ==
    LET f1 == Fetch(in, pos, 1, sock) IN
    IF f1 # "ok" THEN NotReady(f1, 0)
    ELSE LET command_type == CommandType_try_from(in[pos + 1]) IN
    IF command_type = "ProtocolError" THEN ResErr("ProtocolError", 0, 1)
    ELSE LET f2 == Fetch(in, pos, 7, sock) IN
    IF f2 # "ok" THEN NotReady(f2, 1)
    ELSE LET port == U16At(in, pos + 1)
             ip == U32At(in, pos + 3)
             u == UserIdLen(in, pos + 7) IN
    IF u = 0 THEN (IF sock = "eof" THEN ResErr("IOError", 0, Len(in) - pos)
                        ELSE ResPending)
    ELSE ResOk(7 + u, command_type, ip, port)

\* A read_socks5_auth_request that looks at the first offered method only.
read_socks5_auth_request_FirstOnly(in, pos, sock) ==
    LET f1 == Fetch(in, pos, 1, sock) IN
    IF f1 # "ok" THEN NotReady(f1, 0)
    ELSE LET num_methods == in[pos + 1]
             f2 == Fetch(in, pos, 1 + num_methods, sock) IN
    IF f2 # "ok" THEN NotReady(f2, 1)
    ELSE IF num_methods = 0 \/ in[pos + 2] # 0
         THEN ResErr("UnsupportedAuthMethod", 0, 1 + num_methods)
    ELSE ResOk(1 + num_methods, "none", 0, 0)

\* socks5.rs:35-55 (the version byte has been consumed by read_version)
read_socks5_auth_request(in, pos, sock) ==
    LET f1 == Fetch(in, pos, 1, sock) IN
    IF f1 # "ok" THEN NotReady(f1, 0)
    ELSE LET num_methods == in[pos + 1]
             f2 == Fetch(in, pos, 1 + num_methods, sock) IN
    IF f2 # "ok" THEN NotReady(f2, 1)
    ELSE LET methods == SubSeq(in, pos + 2, pos + 1 + num_methods) IN
    IF Len(methods) # num_methods THEN ResErr("ProtocolError", 0, 1 + num_methods)
    ELSE IF ~ \E i \in 1..Len(methods) : methods[i] = 0
         THEN ResErr("UnsupportedAuthMethod", 0, 1 + num_methods)
    ELSE ResOk(1 + num_methods, "none", 0, 0)

\* A Socks5Command::read that does not check the reserved byte.
Socks5Command_read_RsvUnchecked(in, pos, sock) ==
    LET f1 == Fetch(in, pos, 1, sock) IN
    IF f1 # "ok" THEN NotReady(f1, 0)
    ELSE IF in[pos + 1] # 5 THEN ResErr("ProtocolError", 0, 1)
    ELSE LET f2 == Fetch(in, pos, 2, sock) IN
    IF f2 # "ok" THEN NotReady(f2, 1)
    ELSE LET command_type == CommandType_try_from(in[pos + 2]) IN
    IF command_type = "ProtocolError" THEN ResErr("ProtocolError", 0, 2)
    ELSE LET f4 == Fetch(in, pos, 4, sock) IN
    IF f4 # "ok" THEN NotReady(f4, 2)
    ELSE IF in[pos + 4] # 1 THEN ResErr("UnsupportedCommand", 0, 4)
    ELSE LET f5 == Fetch(in, pos, 10, sock) IN
    IF f5 # "ok" THEN NotReady(f5, 4)
    ELSE ResOk(10, command_type, U32At(in, pos + 4), U16At(in, pos + 8))

\* socks5.rs:121-151
Socks5Command_read(in, pos, sock) ==
    LET f1 == Fetch(in, pos, 1, sock) IN
    IF f1 # "ok" THEN NotReady(f1, 0)
    ELSE IF in[pos + 1] # 5 THEN ResErr("ProtocolError", 0, 1)
    ELSE LET f2 == Fetch(in, pos, 2, sock) IN
    IF f2 # "ok" THEN NotReady(f2, 1)
    ELSE LET command_type == CommandType_try_from(in[pos + 2]) IN
    IF command_type = "ProtocolError" THEN ResErr("ProtocolError", 0, 2)
    ELSE LET f3 == Fetch(in, pos, 3, sock) IN
    IF f3 # "ok" THEN NotReady(f3, 2)
    ELSE IF in[pos + 3] # 0 THEN ResErr("ProtocolError", 0, 3)
    ELSE LET f4 == Fetch(in, pos, 4, sock) IN
    IF f4 # "ok" THEN NotReady(f4, 3)
    ELSE IF in[pos + 4] # 1 THEN ResErr("UnsupportedCommand", 0, 4)
    ELSE LET f5 == Fetch(in, pos, 10, sock) IN
    IF f5 # "ok" THEN NotReady(f5, 4)
    ELSE ResOk(10, command_type, U32At(in, pos + 4), U16At(in, pos + 8))

\* A Socks4Reply::read that does not look at the result code.
Socks4Reply_read_AnyResult(in, pos, sock) ==
    LET f1 == Fetch(in, pos, 1, sock) IN
    IF f1 # "ok" THEN NotReady(f1, 0)
    ELSE IF in[pos + 1] # 0 THEN ResErr("ProtocolError", 0, 1)
    ELSE LET f3 == Fetch(in, pos, 8, sock) IN
    IF f3 # "ok" THEN NotReady(f3, 1)
    ELSE ResOk(8, "none", U32At(in, pos + 4), U16At(in, pos + 2))

\* socks4.rs:89-108
Socks4Reply_read(in, pos, sock) ==
    LET f1 == Fetch(in, pos, 1, sock) IN
    IF f1 # "ok" THEN NotReady(f1, 0)
    ELSE IF in[pos + 1] # 0 THEN ResErr("ProtocolError", 0, 1)
    ELSE LET f2 == Fetch(in, pos, 2, sock) IN
    IF f2 # "ok" THEN NotReady(f2, 1)
    ELSE IF in[pos + 2] # Socks4Granted THEN ResErr("RequestFailed", in[pos + 2], 2)
    ELSE LET f3 == Fetch(in, pos, 8, sock) IN
    IF f3 # "ok" THEN NotReady(f3, 2)
    ELSE ResOk(8, "none", U32At(in, pos + 4), U16At(in, pos + 2))

\* A read_socks5_auth_reply that takes whichever method the hop selected.
read_socks5_auth_reply_AnyMethod(in, pos, sock) ==
    LET f1 == Fetch(in, pos, 1, sock) IN
    IF f1 # "ok" THEN NotReady(f1, 0)
    ELSE IF in[pos + 1] # 5 THEN ResErr("ProtocolError", 0, 1)
    ELSE LET f2 == Fetch(in, pos, 2, sock) IN
    IF f2 # "ok" THEN NotReady(f2, 1)
    ELSE ResOk(2, "none", 0, 0)

\* socks5.rs:77-94
read_socks5_auth_reply(in, pos, sock) ==
    LET f1 == Fetch(in, pos, 1, sock) IN
    IF f1 # "ok" THEN NotReady(f1, 0)
    ELSE IF in[pos + 1] # 5 THEN ResErr("ProtocolError", 0, 1)
    ELSE LET f2 == Fetch(in, pos, 2, sock) IN
    IF f2 # "ok" THEN NotReady(f2, 1)
    ELSE IF in[pos + 2] # 0 THEN ResErr("AuthRejected", 0, 2)
    ELSE ResOk(2, "none", 0, 0)

\* A Socks5Reply::read that reports every failure code as 1.
Socks5Reply_read_CodeLost(in, pos, sock) ==
    LET f2 == Fetch(in, pos, 2, sock) IN
    IF f2 # "ok" THEN NotReady(f2, 0)
    ELSE IF in[pos + 1] # 5 THEN ResErr("ProtocolError", 0, 1)
    ELSE IF in[pos + 2] # 0 THEN ResErr("RequestFailed", 1, 2)
    ELSE LET f5 == Fetch(in, pos, 10, sock) IN
    IF f5 # "ok" THEN NotReady(f5, 2)
    ELSE IF in[pos + 3] # 0 THEN ResErr("ProtocolError", 0, 3)
    ELSE IF in[pos + 4] # 1 THEN ResErr("UnsupportedCommand", 0, 4)
    ELSE ResOk(10, "none", U32At(in, pos + 4), U16At(in, pos + 8))

\* socks5.rs:170-201
Socks5Reply_read(in, pos, sock) ==
    LET f1 == Fetch(in, pos, 1, sock) IN
    IF f1 # "ok" THEN NotReady(f1, 0)
    ELSE IF in[pos + 1] # 5 THEN ResErr("ProtocolError", 0, 1)
    ELSE LET f2 == Fetch(in, pos, 2, sock) IN
    IF f2 # "ok" THEN NotReady(f2, 1)
    ELSE IF in[pos + 2] # 0 THEN ResErr("RequestFailed", in[pos + 2], 2)
    ELSE LET f3 == Fetch(in, pos, 3, sock) IN
    IF f3 # "ok" THEN NotReady(f3, 2)
    ELSE IF in[pos + 3] # 0 THEN ResErr("ProtocolError", 0, 3)
    ELSE LET f4 == Fetch(in, pos, 4, sock) IN
    IF f4 # "ok" THEN NotReady(f4, 3)
    ELSE IF in[pos + 4] # 1 THEN ResErr("UnsupportedCommand", 0, 4)
    ELSE LET f5 == Fetch(in, pos, 10, sock) IN
    IF f5 # "ok" THEN NotReady(f5, 4)
    ELSE ResOk(10, "none", U32At(in, pos + 4), U16At(in, pos + 8))

\* ------------------------------------------------------- chain establisher

\* session.rs:39-61, the loop of write_chain_common from hop i on: for each
\* adjacent pair (chain[i], chain[i+1]) a CONNECT to chain[i+1] in chain[i]'s
\* variant.
RECURSIVE write_chain_loop(_, _)
write_chain_loop(chain, i) ==
    IF i >= Len(chain) THEN <<>>
    ELSE LET proxy == chain[i]
             next == chain[i + 1]
             req == IF proxy.variant = "Socks4"
                    THEN Socks4Command_write(Command(4, "Connect", next.ip, next.port))
                    ELSE write_socks5_auth
                         \o Socks5Command_write(Command(5, "Connect", next.ip, next.port))
         IN req \o write_chain_loop(chain, i + 1)

\* A write_chain_common whose loop starts one pair late.
write_chain_common_SkipsFirstPair(chain) == write_chain_loop(chain, 2)

\* session.rs:30-64, the bytes write_chain_common leaves in the buffer.
write_chain_common(chain) == write_chain_loop(chain, 1)

\* session.rs:121-132 (handle_socks4) and 150-161 (handle_socks5): the
\* terminal request, the client's command re-encoded for the last proxy.
TerminalRequest(command, last_proxy) ==
    IF command.ver = 4
    THEN IF last_proxy.variant = "Socks5"
         THEN write_socks5_auth \o Socks5Command_write(Socks5Command_from(command))
         ELSE Socks4Command_write(command)
    ELSE IF last_proxy.variant = "Socks5"
         THEN write_socks5_auth \o Socks5Command_write(command)
         ELSE Socks4Command_write(Socks4Command_from(command))

\* session.rs:119-132 / 148-161: the whole buffer handed to proxy_stream.write.
EstablishmentBuf(command, chain) ==
    write_chain_common(chain) \o TerminalRequest(command, chain[Len(chain)])

\* session.rs:108-111, the loop of make_chain from stage i on, final_chain
\* holding the proxies pushed so far: the Vecs it can end with (choose() may
\* return any entry of the stage).
RECURSIVE make_chain_loop(_, _, _)
make_chain_loop(chains, i, final_chain) ==
    IF i > Len(chains) THEN { final_chain }
    ELSE UNION { make_chain_loop(chains, i + 1, Append(final_chain, proxy)) :
                    proxy \in chains[i] }

\* A make_chain that draws every hop from the first stage.
make_chain_FirstStage(chains) ==
    make_chain_loop([i \in 1..Len(chains) |-> chains[1]], 1, <<>>)

\* session.rs:104-114: the chains make_chain can return.
make_chain(chains) == make_chain_loop(chains, 1, <<>>)

\* session.rs:136-138 / 165-167: the reply frame for the client's variant.
ClientReplyFrame(ver, ip, port) ==
    IF ver = 4 THEN Socks4Reply_write(ip, port) ELSE Socks5Reply_write(ip, port)

\* AsyncWriteExt::write: the socket accepts between 1 and len bytes of the
\* buffer it is offered. The counts explored: all of it, and one byte less.
Accepts(len) == { k \in {len - 1, len} : k >= 1 }

\* ------------------------------------------------------------- environment

\* The destination the client asks for: 88.99.10.7:443 (addresses are kept
\* below 2^31, the largest integer TLC represents).
Targets == { [ip |-> 1482885639, port |-> 443] }

\* USERID fields of a SOCKS4 client (socks4.rs:64 discards them).
UserIds == { <<117>> }

\* METHODS lists of a SOCKS5 client: with method 0 first, last or absent,
\* and the empty list (NMETHODS = 0).
MethodLists == { <<0>>, <<2, 0>>, <<2>>, <<1, 2>>, <<>> }

\* What a client sends up to and including its command frame.
Socks4Requests ==
    { <<4, cd>> \o BE16(t.port) \o BE32(t.ip) \o u \o <<0>> :
        cd \in {1, 2, 3}, t \in Targets, u \in UserIds }

\* The commands a SOCKS5 client goes on to ask after offering the list m: both
\* after the list 00, CONNECT after the others.
CmdsAfter(m) == IF m = <<0>> THEN {1, 2} ELSE {1}

Socks5Requests ==
    UNION { { <<5, Len(m)>> \o m \o <<5, cmd, 0, 1>> \o BE32(t.ip) \o BE16(t.port) :
                cmd \in CmdsAfter(m), t \in Targets } : m \in MethodLists }

\* SOCKS5 command frames with one invalid field (VER, CMD, RSV, ATYP), and
\* with several.
Socks5BadRequests ==
    { <<5, 1, 0>> \o f \o BE32(t.ip) \o BE16(t.port) :
        f \in { <<4, 1, 0, 1>>, <<5, 3, 0, 1>>, <<5, 1, 1, 1>>, <<5, 1, 0, 3>>,
                 <<5, 0, 0, 1>>, <<5, 2, 0, 4>>, <<5, 2, 1, 3>>, <<5, 3, 0, 3>>,
                 <<0, 1, 0, 3>> },
        t \in Targets }

\* A first byte that is no SOCKS version.
BadVersionRequests == { <<b>> : b \in (0..255) \ {4, 5} }

ClientRequests ==
    Socks4Requests \cup Socks5Requests \cup Socks5BadRequests \cup BadVersionRequests

\* The client may stop after any of these prefixes of its request.
Cuts(hs) == { k \in {0, Len(hs) - 1, Len(hs)} : k >= 0 }

\* Payload bytes are numbered, so that a dropped, duplicated or reordered
\* byte shows: the client's j-th is 160 + j, the upstream's 176 + j.
ClientPayload(j) == 160 + j
UpstreamPayload(j) == 176 + j

\* The address hop i puts in a successful reply; distinct for each hop.
BndIp(i) == 456932672 + i
BndPort(i) == 4660 + i

\* The replies hop i may give, by the hop's variant.
HopReplyKinds(variant) ==
    IF variant = "Socks4" THEN {"ok", "fail", "badver"}
    ELSE {"ok", "fail", "badver", "authrej", "authbadver", "nomethod"}

HopReplyBytes(variant, kind, i) ==
    IF variant = "Socks4"
    THEN CASE kind = "ok" -> <<0, 90>> \o BE16(BndPort(i)) \o BE32(BndIp(i))
           [] kind = "fail" -> <<0, 91, 0, 0, 0, 0, 0, 0>>
           [] OTHER -> <<4, 90>> \o BE16(BndPort(i)) \o BE32(BndIp(i))
    ELSE CASE kind = "ok" -> <<5, 0, 5, 0, 0, 1>> \o BE32(BndIp(i)) \o BE16(BndPort(i))
           [] kind = "fail" -> <<5, 0, 5, 5, 0, 1, 0, 0, 0, 0, 0, 0>>
           [] kind = "authrej" -> <<5, 255>>
           [] kind = "authbadver" -> <<4, 0>>
           [] kind = "nomethod" -> <<5, 5, 0, 1, 0, 0, 0, 0, 0, 0>>
           [] OTHER -> <<5, 0, 4, 0, 0, 1>> \o BE32(BndIp(i)) \o BE16(BndPort(i))

\* ------------------------------------------------------------------- state

VARIABLES
    pc,            \* the await point Session::run is at
    outcome,       \* the Result of Session::run: [e, code], e = "none" while running
    chains,        \* config.chains(), shared and read-only
    version,       \* the SocksVersion read_version returned (4, 5; 0 before)
    command,       \* the client's command
    chain,         \* the Vec<Proxy> make_chain returned
    connections,   \* the proxies connect_to_proxy connected to, in order
    buf,           \* the establishment buffer handed to proxy_stream.write
    est_sent,      \* the bytes of buf the upstream socket accepted
    hop,           \* read_chain_common: index of the hop whose reply is read
    reads,         \* read_chain_common: the reads made, [hop, frame, from, n]
    bnd,           \* the (ip, port) read_chain_common returned
    reply_buf,     \* the reply frame handed to client_stream.write
    chunk,         \* relay: &buf[..num], read and not yet offered to write
    relay_rd,      \* relay: bytes read from each source, [c2u, u2c]
    relay_wr,      \* relay: bytes accepted by each destination, [c2u, u2c]
    open_socks,    \* the sockets the session holds open
    cl_in, cl_pos, cl_st, cl_wr, client_out,      \* the client socket
    up_in, up_pos, up_st, up_wr, upstream_out,    \* the upstream socket
    cl_whole,      \* the client has sent its whole request
    cl_sent,       \* number of payload bytes the client has sent
    hops_sent,     \* number of hop replies the upstream has sent
    up_sent,       \* number of payload bytes the upstream has sent
    codec,         \* a frame codec applied on its own: [pc, kind, input, ...]
    server         \* Server::run and the tasks it spawned: [pc, sessions, log]

sess_vars == << pc, outcome, version, command, chain, connections, buf, est_sent,
                hop, reads, bnd, reply_buf, chunk, relay_rd, relay_wr, open_socks >>
cl_vars == << cl_in, cl_pos, cl_st, cl_wr, client_out, cl_whole, cl_sent >>
up_vars == << up_in, up_pos, up_st, up_wr, upstream_out, hops_sent, up_sent >>
\* What no step of one session changes: the configuration, and the state used
\* when a codec is run on its own or the server with several sessions.
static_vars == << chains, codec, server >>
vars == << sess_vars, cl_vars, up_vars, static_vars >>

NoOutcome == [e |-> "none", code |-> 0]
Outcome(e, code) == [e |-> e, code |-> code]
NoCommand == Command(0, "none", 0, 0)
NoAddr == [ip |-> 0, port |-> 0]
\* No codec is being run on its own; no server is being run.
CodecOff == [pc |-> "off"]
ServerOff == [pc |-> "off"]

Init ==
    /\ pc = "read_version"
    /\ outcome = NoOutcome
    /\ \E m \in 1..MaxStages : chains = ChainsOf(m)
    /\ version = 0
    /\ command = NoCommand
    /\ chain = <<>>
    /\ connections = <<>>
    /\ buf = <<>>
    /\ est_sent = <<>>
    /\ hop = 0
    /\ reads = <<>>
    /\ bnd = NoAddr
    /\ reply_buf = <<>>
    /\ chunk = <<>>
    /\ relay_rd = [c2u |-> <<>>, u2c |-> <<>>]
    /\ relay_wr = [c2u |-> <<>>, u2c |-> <<>>]
    /\ open_socks = {"client"}
    /\ \E hs \in ClientRequests : \E k \in Cuts(hs) :
          /\ cl_in = SubSeq(hs, 1, k)
          /\ cl_whole = (k = Len(hs))
    /\ cl_pos = 0
    /\ cl_st = "open"
    /\ cl_wr = TRUE
    /\ client_out = <<>>
    /\ up_in = <<>>
    /\ up_pos = 0
    /\ up_st = "open"
    /\ up_wr = TRUE
    /\ upstream_out = <<>>
    /\ hops_sent = 0
    /\ cl_sent = 0
    /\ up_sent = 0
    /\ codec = CodecOff
    /\ server = ServerOff

\* ----------------------------------------------------------------- session

\* session.rs:208-216: run has returned; the task ends and drops the client
\* stream and (when it exists) the proxy stream, which closes them.
Finish(e, code) ==
    /\ pc' = "done"
    /\ outcome' = Outcome(e, code)
    /\ open_socks' = {}

Goto(next) ==
    /\ pc' = next
    /\ UNCHANGED << outcome, open_socks >>

\* session.rs:173-176, read_version(&mut client_stream).await?
ReadVersion ==
    /\ pc = "read_version"
    /\ LET r == read_version(cl_in, cl_pos, cl_st) IN
         /\ r.st # "pending"
         /\ cl_pos' = cl_pos + r.n
         /\ IF r.st = "ok"
            THEN /\ version' = (IF r.kind = "Socks4" THEN 4 ELSE 5)
                 /\ Goto(IF r.kind = "Socks4" THEN "s4_command" ELSE "s5_auth_request")
            ELSE /\ Finish(r.err, r.code)
                 /\ UNCHANGED version
    /\ UNCHANGED << command, chain, connections, buf, est_sent, hop, reads, bnd,
                    reply_buf, chunk, relay_rd, relay_wr, static_vars, up_vars,
                    cl_in, cl_st, cl_wr, client_out, cl_whole, cl_sent >>

\* session.rs:117, Socks4Command::read(client_stream).await?
S4ReadCommand ==
    /\ pc = "s4_command"
    /\ LET r == Socks4Command_read(cl_in, cl_pos, cl_st) IN
         /\ r.st # "pending"
         /\ cl_pos' = cl_pos + r.n
         /\ IF r.st = "ok"
            THEN /\ command' = Command(4, r.kind, r.ip, r.port)
                 /\ Goto("make_chain")
            ELSE /\ Finish(r.err, r.code)
                 /\ UNCHANGED command
    /\ UNCHANGED << version, chain, connections, buf, est_sent, hop, reads, bnd,
                    reply_buf, chunk, relay_rd, relay_wr, static_vars, up_vars,
                    cl_in, cl_st, cl_wr, client_out, cl_whole, cl_sent >>

\* session.rs:144, read_socks5_auth_request(client_stream).await?
S5ReadAuthRequest ==
    /\ pc = "s5_auth_request"
    /\ LET r == read_socks5_auth_request(cl_in, cl_pos, cl_st) IN
         /\ r.st # "pending"
         /\ cl_pos' = cl_pos + r.n
         /\ IF r.st = "ok" THEN Goto("s5_auth_reply") ELSE Finish(r.err, r.code)
    /\ UNCHANGED << version, command, chain, connections, buf, est_sent, hop, reads,
                    bnd, reply_buf, chunk, relay_rd, relay_wr, static_vars, up_vars,
                    cl_in, cl_st, cl_wr, client_out, cl_whole, cl_sent >>

\* session.rs:145, write_socks5_auth_reply(client_stream).await? (write_u8
\* and flush: the two bytes are written whole)
S5WriteAuthReply ==
    /\ pc = "s5_auth_reply"
    /\ IF cl_st = "err"
       THEN /\ Finish("IOError", 0)
            /\ UNCHANGED client_out
       ELSE /\ cl_wr
            /\ client_out' = client_out \o write_socks5_auth_reply
            /\ Goto("s5_command")
    /\ UNCHANGED << version, command, chain, connections, buf, est_sent, hop, reads,
                    bnd, reply_buf, chunk, relay_rd, relay_wr, static_vars, up_vars,
                    cl_in, cl_pos, cl_st, cl_wr, cl_whole, cl_sent >>

\* session.rs:146, Socks5Command::read(client_stream).await?
S5ReadCommand ==
    /\ pc = "s5_command"
    /\ LET r == Socks5Command_read(cl_in, cl_pos, cl_st) IN
         /\ r.st # "pending"
         /\ cl_pos' = cl_pos + r.n
         /\ IF r.st = "ok"
            THEN /\ command' = Command(5, r.kind, r.ip, r.port)
                 /\ Goto("make_chain")
            ELSE /\ Finish(r.err, r.code)
                 /\ UNCHANGED command
    /\ UNCHANGED << version, chain, connections, buf, est_sent, hop, reads, bnd,
                    reply_buf, chunk, relay_rd, relay_wr, static_vars, up_vars,
                    cl_in, cl_st, cl_wr, client_out, cl_whole, cl_sent >>

\* session.rs:118 / 147, let chain = self.make_chain()
MakeChain ==
    /\ pc = "make_chain"
    /\ chain' \in make_chain(chains)
    /\ Goto("connect")
    /\ UNCHANGED << version, command, connections, buf, est_sent, hop, reads, bnd,
                    reply_buf, chunk, relay_rd, relay_wr, static_vars, up_vars, cl_vars >>

\* A write_chain_common that connects to the last proxy of the chain.
ConnectToProxy_ToLastHop ==
    /\ pc = "connect"
    /\ \/ /\ connections' = Append(connections, chain[Len(chain)])
          /\ buf' = EstablishmentBuf(command, chain)
          /\ pc' = "write_chain"
          /\ open_socks' = open_socks \cup {"upstream"}
          /\ UNCHANGED outcome
       \/ /\ Finish("IOError", 0)
          /\ UNCHANGED << connections, buf >>
    /\ UNCHANGED << version, command, chain, est_sent, hop, reads, bnd,
                    reply_buf, chunk, relay_rd, relay_wr, static_vars, up_vars, cl_vars >>

\* session.rs:37, connect_to_proxy(first).await? (session.rs:23-28), and, when
\* it succeeds, the rest of write_chain_common and the terminal request of
\* handle_socks4 / handle_socks5, which write to the Vec and never suspend.
ConnectToProxy ==
    /\ pc = "connect"
    /\ \/ /\ connections' = Append(connections, chain[1])
          /\ buf' = EstablishmentBuf(command, chain)
          /\ pc' = "write_chain"
          /\ open_socks' = open_socks \cup {"upstream"}
          /\ UNCHANGED outcome
       \/ /\ Finish("IOError", 0)
          /\ UNCHANGED << connections, buf >>
    /\ UNCHANGED << version, command, chain, est_sent, hop, reads, bnd,
                    reply_buf, chunk, relay_rd, relay_wr, static_vars, up_vars, cl_vars >>

\* A read_chain_common that reads no method-negotiation reply.
HopPc_NoAuthReply(proxy) == "hop_reply"

\* session.rs:73-76, the pc at which read_chain_common reads hop i's replies.
HopPc(proxy) == IF proxy.variant = "Socks5" THEN "hop_auth" ELSE "hop_reply"

\* session.rs:134 / 163, proxy_stream.write(&buf).await?
WriteChain ==
    /\ pc = "write_chain"
    /\ IF up_st = "err"
       THEN /\ Finish("IOError", 0)
            /\ UNCHANGED << upstream_out, est_sent, hop >>
       ELSE /\ up_wr
            /\ \E k \in Accepts(Len(buf)) :
                  /\ upstream_out' = upstream_out \o SubSeq(buf, 1, k)
                  /\ est_sent' = SubSeq(buf, 1, k)
            /\ hop' = 1
            /\ Goto(HopPc(chain[1]))
    /\ UNCHANGED << version, command, chain, connections, buf, reads, bnd,
                    reply_buf, chunk, relay_rd, relay_wr, static_vars, cl_vars,
                    up_in, up_pos, up_st, up_wr, hops_sent, up_sent >>

ReadEntry(h, frame, from, n) == [hop |-> h, frame |-> frame, from |-> from, n |-> n]

\* session.rs:85, read_socks5_auth_reply(stream).await?
ReadHopAuth ==
    /\ pc = "hop_auth"
    /\ LET r == read_socks5_auth_reply(up_in, up_pos, up_st) IN
         /\ r.st # "pending"
         /\ up_pos' = up_pos + r.n
         /\ reads' = Append(reads, ReadEntry(hop, "s5method", up_pos, r.n))
         /\ IF r.st = "ok" THEN Goto("hop_reply") ELSE Finish(r.err, r.code)
    /\ UNCHANGED << version, command, chain, connections, buf, est_sent, hop, bnd,
                    reply_buf, chunk, relay_rd, relay_wr, static_vars, cl_vars,
                    up_in, up_st, up_wr, upstream_out, hops_sent, up_sent >>

\* A read_chain_common that returns the address of the first reply it reads.
IsLastHop_First(c, i) == i >= 1

\* session.rs:80 / 88, `!iter.peek().is_some()`: hop i is the last of the chain.
IsLastHop(c, i) == i = Len(c)

\* session.rs:78 / 86, the reply frame reader of the hop's variant.
HopReply_read(proxy, in, pos, sock) ==
    IF proxy.variant = "Socks4" THEN Socks4Reply_read(in, pos, sock)
    ELSE Socks5Reply_read(in, pos, sock)

\* session.rs:78-82 / 86-90, Socks4Reply::read or Socks5Reply::read, then
\* return the address when the hop is the last, else loop to the next hop.
ReadHopReply ==
    /\ pc = "hop_reply"
    /\ LET r == HopReply_read(chain[hop], up_in, up_pos, up_st)
           frame == IF chain[hop].variant = "Socks4" THEN "s4reply" ELSE "s5reply"
       IN
         /\ r.st # "pending"
         /\ up_pos' = up_pos + r.n
         /\ reads' = Append(reads, ReadEntry(hop, frame, up_pos, r.n))
         /\ IF r.st # "ok"
            THEN /\ Finish(r.err, r.code)
                 /\ UNCHANGED << hop, bnd >>
            ELSE IF IsLastHop(chain, hop)
            THEN /\ bnd' = [ip |-> r.ip, port |-> r.port]
                 /\ Goto("client_reply")
                 /\ UNCHANGED hop
            ELSE /\ hop' = hop + 1
                 /\ Goto(HopPc(chain[hop + 1]))
                 /\ UNCHANGED bnd
    /\ UNCHANGED << version, command, chain, connections, buf, est_sent,
                    reply_buf, chunk, relay_rd, relay_wr, static_vars, cl_vars,
                    up_in, up_st, up_wr, upstream_out, hops_sent, up_sent >>

\* session.rs:136-139 / 165-168, the reply frame and client_stream.write(&buf)
WriteClientReply ==
    /\ pc = "client_reply"
    /\ reply_buf' = ClientReplyFrame(version, bnd.ip, bnd.port)
    /\ IF cl_st = "err"
       THEN /\ Finish("IOError", 0)
            /\ UNCHANGED client_out
       ELSE /\ cl_wr
            /\ \E k \in Accepts(Len(reply_buf')) :
                  client_out' = client_out \o SubSeq(reply_buf', 1, k)
            /\ Goto("relay")
    /\ UNCHANGED << version, command, chain, connections, buf, est_sent, hop, reads,
                    bnd, chunk, relay_rd, relay_wr, static_vars, up_vars,
                    cl_in, cl_pos, cl_st, cl_wr, cl_whole, cl_sent >>

\* ------------------------------------------------------------------- relay

\* AsyncReadExt::read on a socket: the values `num` can take. -1 stands for
\* Err(_); 0 is EOF; else the number of bytes read into the 512-byte buffer.
\* The empty set: the read is pending.
ReadNums(in, pos, sock) ==
    IF sock = "err" THEN {-1}
    ELSE IF Len(in) > pos THEN 1..Min(Len(in) - pos, RelayBufLen)
    ELSE IF sock = "eof" THEN {0}
    ELSE {}

\* A relay that reports EOF as an error.
AfterRead_EofIsError(num) ==
    IF num <= 0 THEN "IOError" ELSE "forward"

\* session.rs:186-190 / 196-200: `let num = num?; if num == 0 { return Ok(()) }`
AfterRead(num) ==
    IF num < 0 THEN "IOError" ELSE IF num = 0 THEN "Ok" ELSE "forward"

\* session.rs:185-192, the proxy_read branch of select! up to the write
RelayProxyRead ==
    /\ pc = "relay"
    /\ \E num \in ReadNums(up_in, up_pos, up_st) :
         LET a == AfterRead(num) IN
         IF a = "forward"
         THEN /\ chunk' = SubSeq(up_in, up_pos + 1, up_pos + num)
              /\ up_pos' = up_pos + num
              /\ relay_rd' = [relay_rd EXCEPT !.u2c = @ \o chunk']
              /\ Goto("relay_client_write")
         ELSE /\ Finish(a, 0)
              /\ UNCHANGED << chunk, up_pos, relay_rd >>
    /\ UNCHANGED << version, command, chain, connections, buf, est_sent, hop, reads,
                    bnd, reply_buf, relay_wr, static_vars, cl_vars,
                    up_in, up_st, up_wr, upstream_out, hops_sent, up_sent >>

\* session.rs:192, client_write.write(&proxy_buf[..num]).await?
RelayClientWrite ==
    /\ pc = "relay_client_write"
    /\ IF cl_st = "err"
       THEN /\ Finish("IOError", 0)
            /\ UNCHANGED << client_out, relay_wr, chunk >>
       ELSE /\ cl_wr
            /\ \E k \in Accepts(Len(chunk)) :
                  /\ client_out' = client_out \o SubSeq(chunk, 1, k)
                  /\ relay_wr' = [relay_wr EXCEPT !.u2c = @ \o SubSeq(chunk, 1, k)]
            /\ chunk' = <<>>
            /\ Goto("relay")
    /\ UNCHANGED << version, command, chain, connections, buf, est_sent, hop, reads,
                    bnd, reply_buf, relay_rd, static_vars, up_vars,
                    cl_in, cl_pos, cl_st, cl_wr, cl_whole, cl_sent >>

\* session.rs:195-202, the client_read branch of select! up to the write
RelayClientRead ==
    /\ pc = "relay"
    /\ \E num \in ReadNums(cl_in, cl_pos, cl_st) :
         LET a == AfterRead(num) IN
         IF a = "forward"
         THEN /\ chunk' = SubSeq(cl_in, cl_pos + 1, cl_pos + num)
              /\ cl_pos' = cl_pos + num
              /\ relay_rd' = [relay_rd EXCEPT !.c2u = @ \o chunk']
              /\ Goto("relay_proxy_write")
         ELSE /\ Finish(a, 0)
              /\ UNCHANGED << chunk, cl_pos, relay_rd >>
    /\ UNCHANGED << version, command, chain, connections, buf, est_sent, hop, reads,
                    bnd, reply_buf, relay_wr, static_vars, up_vars,
                    cl_in, cl_st, cl_wr, client_out, cl_whole, cl_sent >>

\* session.rs:202, proxy_write.write(&client_buf[..num]).await?
RelayProxyWrite ==
    /\ pc = "relay_proxy_write"
    /\ IF up_st = "err"
       THEN /\ Finish("IOError", 0)
            /\ UNCHANGED << upstream_out, relay_wr, chunk >>
       ELSE /\ up_wr
            /\ \E k \in Accepts(Len(chunk)) :
                  /\ upstream_out' = upstream_out \o SubSeq(chunk, 1, k)
                  /\ relay_wr' = [relay_wr EXCEPT !.c2u = @ \o SubSeq(chunk, 1, k)]
            /\ chunk' = <<>>
            /\ Goto("relay")
    /\ UNCHANGED << version, command, chain, connections, buf, est_sent, hop, reads,
                    bnd, reply_buf, relay_rd, static_vars, cl_vars,
                    up_in, up_pos, up_st, up_wr, hops_sent, up_sent >>

SessionStep ==
    \/ ReadVersion \/ S4ReadCommand
    \/ S5ReadAuthRequest \/ S5WriteAuthReply \/ S5ReadCommand
    \/ MakeChain \/ ConnectToProxy \/ WriteChain
    \/ ReadHopAuth \/ ReadHopReply \/ WriteClientReply
    \/ RelayProxyRead \/ RelayClientWrite \/ RelayClientRead \/ RelayProxyWrite

\* -------------------------------------------------------------- the peers

\* The client sends its next payload byte.
ClientSend ==
    /\ pc # "done" /\ cl_whole /\ cl_st = "open" /\ cl_sent < MaxPayload
    /\ cl_in' = Append(cl_in, ClientPayload(cl_sent + 1))
    /\ cl_sent' = cl_sent + 1
    /\ UNCHANGED << sess_vars, up_vars, static_vars, cl_pos, cl_st, cl_wr, client_out, cl_whole >>

\* The client shuts down its sending side: reads return EOF after its bytes.
ClientClose ==
    /\ pc # "done" /\ cl_st = "open"
    /\ cl_st' = "eof"
    /\ UNCHANGED << sess_vars, up_vars, static_vars, cl_in, cl_pos, cl_wr, client_out,
                    cl_whole, cl_sent >>

\* The client's connection fails (reset): reads and writes return Err.
ClientReset ==
    /\ pc # "done" /\ cl_st # "err"
    /\ cl_st' = "err"
    /\ UNCHANGED << sess_vars, up_vars, static_vars, cl_in, cl_pos, cl_wr, client_out,
                    cl_whole, cl_sent >>

\* The client stops / resumes reading while a relay write to it is pending:
\* the socket's send buffer is full / has room again (back-pressure). Before
\* the relay the send buffers hold at most the handshake.
ClientStall ==
    /\ pc = "relay_client_write" /\ cl_st # "err"
    /\ cl_wr' = ~ cl_wr
    /\ UNCHANGED << sess_vars, up_vars, static_vars, cl_in, cl_pos, cl_st, client_out,
                    cl_whole, cl_sent >>

\* The length of the request a hop of the given variant waits for: a SOCKS4
\* request with an empty USERID, or a SOCKS5 method list and request.
HopRequestLen(variant) == IF variant = "Socks4" THEN 9 ELSE 13

\* The number of bytes that must have arrived upstream for hops 1..i to have
\* their requests in full.
RECURSIVE HopRequestEnd(_, _)
HopRequestEnd(c, i) ==
    IF i = 0 THEN 0 ELSE HopRequestLen(c[i].variant) + HopRequestEnd(c, i - 1)

\* Hop number hops_sent + 1 of the chain answers its request, once the
\* request has reached it in full.
HopReply ==
    /\ pc # "done" /\ "upstream" \in open_socks /\ up_st = "open"
    /\ hops_sent < Len(chain)
    /\ Len(upstream_out) >= HopRequestEnd(chain, hops_sent + 1)
    /\ \E kind \in HopReplyKinds(chain[hops_sent + 1].variant) :
          up_in' = up_in \o HopReplyBytes(chain[hops_sent + 1].variant, kind,
                                          hops_sent + 1)
    /\ hops_sent' = hops_sent + 1
    /\ UNCHANGED << sess_vars, cl_vars, static_vars, up_pos, up_st, up_wr, upstream_out,
                    up_sent >>

\* The destination, behind the chain, sends its next payload byte.
UpstreamSend ==
    /\ pc # "done" /\ "upstream" \in open_socks /\ up_st = "open"
    /\ hops_sent = Len(chain) /\ up_sent < MaxPayload
    /\ up_in' = Append(up_in, UpstreamPayload(up_sent + 1))
    /\ up_sent' = up_sent + 1
    /\ UNCHANGED << sess_vars, cl_vars, static_vars, up_pos, up_st, up_wr, upstream_out,
                    hops_sent >>

UpstreamClose ==
    /\ pc # "done" /\ "upstream" \in open_socks /\ up_st = "open"
    /\ up_st' = "eof"
    /\ UNCHANGED << sess_vars, cl_vars, static_vars, up_in, up_pos, up_wr, upstream_out,
                    hops_sent, up_sent >>

UpstreamReset ==
    /\ pc # "done" /\ "upstream" \in open_socks /\ up_st # "err"
    /\ up_st' = "err"
    /\ UNCHANGED << sess_vars, cl_vars, static_vars, up_in, up_pos, up_wr, upstream_out,
                    hops_sent, up_sent >>

UpstreamStall ==
    /\ pc = "relay_proxy_write" /\ up_st # "err"
    /\ up_wr' = ~ up_wr
    /\ UNCHANGED << sess_vars, cl_vars, static_vars, up_in, up_pos, up_st, upstream_out,
                    hops_sent, up_sent >>

PeerStep ==
    \/ ClientSend \/ ClientClose \/ ClientReset \/ ClientStall
    \/ HopReply \/ UpstreamSend \/ UpstreamClose \/ UpstreamReset \/ UpstreamStall

Next == SessionStep \/ PeerStep

Spec == Init /\ [][Next]_vars

\* tokio polls a task whose awaited I/O is ready: a session step that stays
\* enabled is taken. The peers are under no obligation.
FairSpec == Spec /\ WF_vars(SessionStep)

\* ------------------------------------------------- the codecs on their own
\* A frame writer applied to one value and a frame reader applied to the
\* bytes it produced, or to the bytes of a client's SOCKS4 request, on a
\* stream that ends after those bytes and a tail. No session runs.

\* Addresses (up to 127.0.0.1 and 2^31 - 1) and ports with each octet at its
\* least and greatest value.
CodecIps == { 0, 1, 255, 256, 65535, 16777216, 2130706433, 2147483647 }
CodecPorts == { 0, 1, 255, 256, 443, 65535 }

\* The bytes that follow the frame in the stream.
CodecTails == { <<>>, <<0>>, <<7, 0>> }

\* USERID fields of 0, 1, 2, 16 and 255 non-zero bytes.
CodecUserIds ==
    { [j \in 1..k |-> fill] : k \in {0, 1, 2, 16, 255}, fill \in {1, 255} }

CodecValue(kind, ip, port) == [kind |-> kind, ip |-> ip, port |-> port]

CodecState(pc_, frame, value, userid, tail, stream) ==
    [pc |-> pc_, frame |-> frame, value |-> value, userid |-> userid, tail |-> tail,
     stream |-> stream, pos |-> 0, path |-> "none", result |-> ResPending]

\* A value to encode, of each frame type; or the bytes of a client's SOCKS4
\* request with a USERID, to parse.
CodecInputs ==
    { CodecState("write", frame, CodecValue(kind, ip, port), <<>>, tail, <<>>) :
        frame \in {"s4command", "s5command"}, kind \in {"Connect", "Bind"},
        ip \in CodecIps, port \in CodecPorts, tail \in CodecTails }
    \cup
    { CodecState("write", frame, CodecValue("none", ip, port), <<>>, tail, <<>>) :
        frame \in {"s4reply", "s5reply"},
        ip \in CodecIps, port \in CodecPorts, tail \in CodecTails }
    \cup
    { CodecState("read", "s4request", CodecValue(kind, ip, port), userid, tail,
                 <<4, KindByte(kind)>> \o BE16(port) \o BE32(ip) \o userid \o <<0>>
                 \o tail) :
        kind \in {"Connect", "Bind"}, ip \in {1, 2130706433}, port \in {255, 443},
        userid \in CodecUserIds, tail \in CodecTails }

\* No session: every variable of the session and of its sockets at rest.
SessionOff ==
    /\ pc = "off" /\ outcome = NoOutcome /\ version = 0
    /\ command = NoCommand /\ chain = <<>> /\ connections = <<>>
    /\ buf = <<>> /\ est_sent = <<>> /\ hop = 0 /\ reads = <<>> /\ bnd = NoAddr
    /\ reply_buf = <<>> /\ chunk = <<>>
    /\ relay_rd = [c2u |-> <<>>, u2c |-> <<>>]
    /\ relay_wr = [c2u |-> <<>>, u2c |-> <<>>]
    /\ open_socks = {}
    /\ cl_in = <<>> /\ cl_pos = 0 /\ cl_st = "open" /\ cl_wr = TRUE
    /\ client_out = <<>> /\ cl_whole = FALSE /\ cl_sent = 0
    /\ up_in = <<>> /\ up_pos = 0 /\ up_st = "open" /\ up_wr = TRUE
    /\ upstream_out = <<>> /\ hops_sent = 0 /\ up_sent = 0

CodecInit ==
    /\ SessionOff
    /\ chains = ChainsOf(1)
    /\ server = ServerOff
    /\ codec \in CodecInputs

\* The writer of a frame type, applied to a value.
FrameWrite(frame, v) ==
    CASE frame = "s4command" -> Socks4Command_write(Command(4, v.kind, v.ip, v.port))
      [] frame = "s5command" -> Socks5Command_write(Command(5, v.kind, v.ip, v.port))
      [] frame = "s4reply" -> Socks4Reply_write(v.ip, v.port)
      [] OTHER -> Socks5Reply_write(v.ip, v.port)

\* The reader of a frame type, applied at offset pos of a stream that ends
\* after its last byte.
FrameRead(frame, stream, pos) ==
    CASE frame \in {"s4command", "s4request"} -> Socks4Command_read(stream, pos, "eof")
      [] frame = "s5command" -> Socks5Command_read(stream, pos, "eof")
      [] frame = "s4reply" -> Socks4Reply_read(stream, pos, "eof")
      [] OTHER -> Socks5Reply_read(stream, pos, "eof")

\* X::write(&mut stream) on an empty Vec; the tail follows in the stream.
CodecWrite ==
    /\ codec.pc = "write"
    /\ codec' = [codec EXCEPT !.stream = FrameWrite(codec.frame, codec.value) \o codec.tail,
                              !.pc = "read"]
    /\ UNCHANGED << sess_vars, cl_vars, up_vars, chains, server >>

\* X::read(&mut stream) from the first byte of the stream.
CodecRead ==
    /\ codec.pc = "read" /\ codec.frame # "s4request"
    /\ LET r == FrameRead(codec.frame, codec.stream, 0) IN
         codec' = [codec EXCEPT !.result = r, !.pos = r.n, !.path = "whole",
                                !.pc = "done"]
    /\ UNCHANGED << sess_vars, cl_vars, up_vars, chains, server >>

\* session.rs:173-174, read_version on a stream that holds a SOCKS4 request:
\* on SOCKS4 the request reader is the next to read.
CodecReadVersion ==
    /\ codec.pc = "read" /\ codec.frame \in {"s4command", "s4request"}
    /\ LET r == read_version(codec.stream, 0, "eof") IN
         codec' = [codec EXCEPT !.pos = r.n,
                                !.result = r,
                                !.path = "after_version",
                                !.pc = IF r.st = "ok" /\ r.kind = "Socks4"
                                       THEN "read_command" ELSE "done"]
    /\ UNCHANGED << sess_vars, cl_vars, up_vars, chains, server >>

\* session.rs:117, Socks4Command::read on the stream read_version has read.
CodecReadCommand ==
    /\ codec.pc = "read_command"
    /\ LET r == FrameRead(codec.frame, codec.stream, codec.pos) IN
         codec' = [codec EXCEPT !.result = r, !.pos = codec.pos + r.n, !.pc = "done"]
    /\ UNCHANGED << sess_vars, cl_vars, up_vars, chains, server >>

CodecNext == CodecWrite \/ CodecRead \/ CodecReadVersion \/ CodecReadCommand

CodecSpec == CodecInit /\ [][CodecNext]_vars

\* ------------------------------------------------ the server and its tasks
\* Server::run (server.rs:18-32) and the tasks Session::spawn_task spawns
\* (session.rs:208-216). A task is Session::run at one of its await points;
\* what the sockets carry is left out: each await ends in one of the ways the
\* code allows there. The tasks share config (an Arc<Config>, read only).

\* A task: the await point it is at, the Result of Session::run ("none" while
\* it runs), the sockets it holds and the chain it materialized.
Task(pc_, e, socks, chain_) == [pc |-> pc_, e |-> e, socks |-> socks, chain |-> chain_]

\* session.rs:172-206 with handle_socks4 / handle_socks5: the await point
\* after the given one, and the errors the `?` at the given one can return.
RunNext(at) ==
    CASE at = "read_version" -> {"s4_command", "s5_auth_request"}
      [] at = "s4_command" -> {"make_chain"}
      [] at = "s5_auth_request" -> {"s5_auth_reply"}
      [] at = "s5_auth_reply" -> {"s5_command"}
      [] at = "s5_command" -> {"make_chain"}
      [] at = "connect" -> {"write_chain"}
      [] at = "write_chain" -> {"read_chain"}
      [] at = "read_chain" -> {"client_reply"}
      [] at = "client_reply" -> {"relay"}
      [] OTHER -> {}

RunErrors(at) ==
    CASE at = "read_version" -> {"IOError", "UnsupportedVersion"}
      [] at = "s4_command" -> {"IOError", "ProtocolError"}
      [] at = "s5_auth_request" -> {"IOError", "ProtocolError", "UnsupportedAuthMethod"}
      [] at = "s5_command" -> {"IOError", "ProtocolError", "UnsupportedCommand"}
      [] at = "read_chain" -> {"IOError", "ProtocolError", "AuthRejected",
                               "RequestFailed", "UnsupportedCommand"}
      [] at = "relay" -> {"IOError", "Ok"}
      [] at = "make_chain" -> {}
      [] OTHER -> {"IOError"}

LogLine(line, who, e) == [line |-> line, who |-> who, e |-> e]

\* A spawn_task whose error reaches the acceptor, as if Server::run awaited
\* `session.run(client_stream).await?` itself.
spawn_task_end_Propagates(srv, i, e) ==
    [srv EXCEPT !.pc = IF e # "Ok" THEN "failed" ELSE @,
                !.sessions[i] = Task("done", e, {}, @.chain),
                !.log = @ \o (IF e # "Ok" THEN << LogLine("Error", i, e) >> ELSE <<>>)
                          \o << LogLine("Disconnected", i, "none") >>]

\* session.rs:209-215, the end of the spawned task: Session::run has returned
\* e; an Err is printed and goes no further, "Disconnected." is printed, and
\* the task's streams are dropped.
spawn_task_end(srv, i, e) ==
    [srv EXCEPT !.sessions[i] = Task("done", e, {}, @.chain),
                !.log = @ \o (IF e # "Ok" THEN << LogLine("Error", i, e) >> ELSE <<>>)
                          \o << LogLine("Disconnected", i, "none") >>]

\* main.rs:33-35 with #[main(flavor = "current_thread")]: Server::run has
\* returned Err; main prints it and returns, and the runtime is dropped with
\* the tasks still running on it.
ServerFailed(srv) ==
    [srv EXCEPT !.pc = "failed",
                !.sessions = [i \in 1..Len(@) |->
                                IF @[i].pc = "done" THEN @[i]
                                ELSE Task("aborted", "none", {}, @[i].chain)],
                !.log = Append(@, LogLine("Fatal error", 0, "IOError"))]

ServerInit ==
    /\ SessionOff
    /\ \E m \in 1..MaxStages : chains = ChainsOf(m)
    /\ codec = CodecOff
    /\ server = [pc |-> "bind", sessions |-> <<>>, log |-> <<>>]

\* server.rs:19-24, TcpListener::bind((host, port)).await?
ServerBind ==
    /\ server.pc = "bind"
    /\ \/ server' = [server EXCEPT
                        !.pc = "accept",
                        !.log = @ \o << LogLine("Trying to bind", 0, "none"),
                                        LogLine("Server running", 0, "none") >>]
       \/ server' = ServerFailed([server EXCEPT
                        !.log = Append(@, LogLine("Trying to bind", 0, "none"))])
    /\ UNCHANGED << sess_vars, cl_vars, up_vars, chains, codec >>

\* server.rs:27-30, server.accept().await?, Session::new and spawn_task
ServerAccept ==
    /\ server.pc = "accept"
    /\ Len(server.sessions) < MaxSessions
    /\ \/ server' = [server EXCEPT
                        !.sessions = Append(@, Task("read_version", "none", {"client"},
                                                    <<>>)),
                        !.log = Append(@, LogLine("Accepted", Len(server.sessions) + 1,
                                                  "none"))]
       \/ server' = ServerFailed(server)
    /\ UNCHANGED << sess_vars, cl_vars, up_vars, chains, codec >>

\* One await of task i's Session::run completes.
TaskStep(i) ==
    /\ server.pc # "failed"
    /\ LET t == server.sessions[i] IN
         /\ t.pc \notin {"done", "aborted"}
         /\ \/ \E next \in RunNext(t.pc) :
                  server' = [server EXCEPT !.sessions[i] =
                      Task(next, "none",
                           IF t.pc = "connect" THEN t.socks \cup {"upstream"} ELSE t.socks,
                           t.chain)]
            \/ /\ t.pc = "make_chain"
               /\ \E c \in make_chain(chains) :
                     server' = [server EXCEPT !.sessions[i] =
                                    Task("connect", "none", t.socks, c)]
            \/ \E e \in RunErrors(t.pc) : server' = spawn_task_end(server, i, e)
    /\ UNCHANGED << sess_vars, cl_vars, up_vars, chains, codec >>

TaskSteps == \E i \in 1..Len(server.sessions) : TaskStep(i)

ServerNext == ServerBind \/ ServerAccept \/ TaskSteps

ServerSpec == ServerInit /\ [][ServerNext]_vars

\* ================================================================== claims

\* The k-th octet (1 = most significant) of a 32-bit and of a 16-bit value.
Octet32(x, k) == (x \div (256 ^ (4 - k))) % 256
Octet16(x, k) == (x \div (256 ^ (2 - k))) % 256
IpOctets(x) == << Octet32(x, 1), Octet32(x, 2), Octet32(x, 3), Octet32(x, 4) >>
PortOctets(x) == << Octet16(x, 1), Octet16(x, 2) >>

\* The wire form of a request of the given kind and address in a hop's
\* variant, with the method negotiation 05 01 00 before a SOCKS5 request.
RequestFor(variant, kind, ip, port) ==
    LET cd == IF kind = "Connect" THEN 1 ELSE 2 IN
    IF variant = "Socks4"
    THEN <<4, cd>> \o PortOctets(port) \o IpOctets(ip) \o <<0>>
    ELSE <<5, 1, 0>> \o <<5, cd, 0, 1>> \o IpOctets(ip) \o PortOctets(port)

RECURSIVE AdjacencyRequests(_, _)
AdjacencyRequests(c, i) ==
    IF i > Len(c) - 1 THEN <<>>
    ELSE RequestFor(c[i].variant, "Connect", c[i + 1].ip, c[i + 1].port)
         \o AdjacencyRequests(c, i + 1)

ExpectedOutbound(cmd, c) ==
    AdjacencyRequests(c, 1)
    \o RequestFor(c[Len(c)].variant, cmd.kind, cmd.ip, cmd.port)

IsPrefix(a, b) == Len(a) <= Len(b) /\ a = SubSeq(b, 1, Len(a))

\* C1: once the session has connected to the first hop, the establishment
\* stream it has built and hands to the upstream socket is, for every chain,
\* client variant and command: for i = 1..n-1 a CONNECT to H_{i+1} in H_i's
\* variant (after 05 01 00 when H_i is SOCKS5), then the client's command in
\* H_n's variant (after 05 01 00 when H_n is SOCKS5); what the socket has
\* accepted of it are its leading bytes, in order.
C1_OutboundStream ==
    connections # <<>> =>
        /\ buf = ExpectedOutbound(command, chain)
        /\ IsPrefix(est_sent, buf)
        /\ (pc \notin {"write_chain", "done"} => est_sent # <<>>)

\* C1 witness: a SOCKS4 client's BIND through a SOCKS5 hop then a SOCKS4 hop,
\* the whole stream accepted by the socket.
C1_Witness ==
    /\ Len(chain) = 2 /\ chain[1].variant = "Socks5" /\ chain[2].variant = "Socks4"
    /\ command.ver = 4 /\ command.kind = "Bind"
    /\ est_sent = buf /\ Len(buf) = 22
    /\ upstream_out = buf

\* C1 witness for n = 1: the stream is the terminal request alone.
C1_WitnessSingle ==
    /\ Len(chain) = 1 /\ chain[1].variant = "Socks5" /\ command.ver = 5
    /\ est_sent = buf /\ Len(buf) = 13

\* C2 (as claimed): when the first reply byte has been read from the upstream
\* socket, every byte of the establishment stream has been written to it.
C2_AllWrittenBeforeRead ==
    up_pos > 0 => est_sent = buf

\* The reads read_chain_common makes for hops i..n, in order, with the length
\* of each frame.
RECURSIVE ExpectedReads(_, _)
ExpectedReads(c, i) ==
    IF i > Len(c) THEN <<>>
    ELSE (IF c[i].variant = "Socks4"
          THEN << [hop |-> i, frame |-> "s4reply", len |-> 8] >>
          ELSE << [hop |-> i, frame |-> "s5method", len |-> 2],
                  [hop |-> i, frame |-> "s5reply", len |-> 10] >>)
         \o ExpectedReads(c, i + 1)

RECURSIVE SumLen(_, _)
SumLen(e, j) == IF j = 0 THEN 0 ELSE e[j].len + SumLen(e, j - 1)

\* The number of bytes the replies of the whole chain take.
TotalReplyLen(c) == SumLen(ExpectedReads(c, 1), Len(ExpectedReads(c, 1)))

Established == pc \in {"client_reply", "relay", "relay_client_write", "relay_proxy_write"}
                \/ (pc = "done" /\ bnd # NoAddr)

\* C3: the reads of hop replies are, in order, those of H_1..H_n (8 bytes for
\* a SOCKS4 hop; 2 then 10 bytes for a SOCKS5 hop), each starting where the
\* previous one ended; a successful establishment has consumed exactly these
\* bytes, and the first upstream byte the relay forwards to the client is the
\* byte that follows H_n's reply frame.
C3_ReplyOrder ==
    LET e == ExpectedReads(chain, 1) IN
    /\ Len(reads) <= Len(e)
    /\ \A j \in 1..Len(reads) :
          /\ reads[j].hop = e[j].hop
          /\ reads[j].frame = e[j].frame
          /\ reads[j].from = SumLen(e, j - 1)
          /\ reads[j].n <= e[j].len
          /\ (j < Len(reads) => reads[j].n = e[j].len)
    /\ Established =>
          /\ Len(reads) = Len(e)
          /\ reads[Len(e)].n = e[Len(e)].len
          /\ up_pos = TotalReplyLen(chain) + Len(relay_rd.u2c)
    /\ relay_rd.u2c # <<>> => relay_rd.u2c[1] = up_in[TotalReplyLen(chain) + 1]
    /\ relay_wr.u2c # <<>> => relay_wr.u2c[1] = up_in[TotalReplyLen(chain) + 1]

\* C3 witness: SOCKS5 hop then SOCKS4 hop, and a first payload byte forwarded.
C3_Witness ==
    /\ Len(chain) = 2 /\ chain[1].variant = "Socks5" /\ chain[2].variant = "Socks4"
    /\ Len(reads) = 3
    /\ relay_wr.u2c # <<>> /\ relay_wr.u2c[1] = UpstreamPayload(1)
    /\ Len(up_in) > 21

\* The reply frame the client is owed for a last-hop reply frame that starts
\* at offset p of the upstream bytes: the frame's own address octets.
ExpectedClientReply(ver, last, in, p) ==
    LET ip == SubSeq(in, p + 5, p + 8)
        port == IF last.variant = "Socks4" THEN SubSeq(in, p + 3, p + 4)
                ELSE SubSeq(in, p + 9, p + 10)
    IN IF ver = 4 THEN <<0, 90>> \o port \o ip
       ELSE <<5, 0, 0, 1>> \o ip \o port

LastFrameOffset(c) ==
    TotalReplyLen(c) - (IF c[Len(c)].variant = "Socks4" THEN 8 ELSE 10)

\* C4: the reply frame written to the client carries the address of H_n's
\* reply frame (not that of an earlier hop), in the client's variant:
\* 00 5A port ip for SOCKS4, 05 00 00 01 ip port for SOCKS5; the client has
\* been sent nothing else but, for SOCKS5, the method reply 05 00 before it.
C4_ReplyBubbling ==
    /\ reply_buf # <<>> =>
          /\ Len(up_in) >= TotalReplyLen(chain)
          /\ reply_buf = ExpectedClientReply(version, chain[Len(chain)], up_in,
                                             LastFrameOffset(chain))
          /\ IsPrefix((IF version = 5 THEN <<5, 0>> ELSE <<>>), client_out)
          /\ IsPrefix(SubSeq(client_out, (IF version = 5 THEN 3 ELSE 1),
                             Len(client_out) - Len(relay_wr.u2c)), reply_buf)
    /\ (pc \in {"relay", "relay_client_write", "relay_proxy_write"}) => reply_buf # <<>>

\* C4 witness: two hops, a SOCKS5 client, the whole frame accepted.
C4_Witness ==
    /\ Len(chain) = 2 /\ version = 5 /\ pc = "relay"
    /\ chain[2].variant = "Socks4"
    /\ client_out = <<5, 0, 5, 0, 0, 1>> \o IpOctets(BndIp(2)) \o PortOctets(BndPort(2))

C4_WitnessSocks4 ==
    /\ Len(chain) = 2 /\ version = 4 /\ pc = "relay"
    /\ client_out = <<0, 90>> \o PortOctets(BndPort(2)) \o IpOctets(BndIp(2))

\* The command reply frame is absent from what the client has been sent: a
\* SOCKS4 client has been sent nothing, a SOCKS5 client the method reply only.
NoReplyFrameToClient ==
    /\ reply_buf = <<>>
    /\ client_out = (IF version = 5 THEN <<5, 0>> ELSE <<>>)

\* A read of a reply frame that got as far as a non-success code in a frame
\* whose version byte is valid.
ReadFailureCode(r) ==
    /\ r.frame \in {"s4reply", "s5reply"}
    /\ r.n >= 2
    /\ up_in[r.from + 1] = (IF r.frame = "s4reply" THEN 0 ELSE 5)
    /\ up_in[r.from + 2] # (IF r.frame = "s4reply" THEN 90 ELSE 0)

\* C5: when the reply frame of a hop carries a non-success code c, the
\* session has ended with RequestFailed(c): that read is the last one (no
\* reply of a later hop is read, nothing after the code byte is consumed),
\* there has been one upstream connection and one chain (no retry), and no
\* command reply frame has been written to the client. Conversely a session
\* ends with RequestFailed only so.
C5_HopFailure ==
    /\ \A j \in 1..Len(reads) :
          ReadFailureCode(reads[j]) =>
              /\ j = Len(reads)
              /\ pc = "done"
              /\ outcome = Outcome("RequestFailed", up_in[reads[j].from + 2])
              /\ up_pos = reads[j].from + 2
              /\ Len(connections) = 1 /\ connections[1] = chain[1]
              /\ NoReplyFrameToClient
              /\ relay_rd = [c2u |-> <<>>, u2c |-> <<>>]
              /\ open_socks = {}
    /\ outcome.e = "RequestFailed" =>
          /\ reads # <<>>
          /\ ReadFailureCode(reads[Len(reads)])

\* C5 witness: a SOCKS5 client, the first of two hops (SOCKS4) refuses with
\* code 91 while the second hop's reply is already waiting, unread.
C5_Witness ==
    /\ outcome = Outcome("RequestFailed", 91)
    /\ version = 5 /\ Len(chain) = 2 /\ hop = 1
    /\ hops_sent = 2 /\ up_pos = 2 /\ Len(up_in) > 8
    /\ client_out = <<5, 0>>

\* The bytes of scenario S5.
S5Frame == <<5, 5, 0, 1, 0, 0, 0, 0, 0, 0>>

\* The session has ended after reading from a healthy upstream socket.
EndedOnReply == pc = "done" /\ reads # <<>> /\ up_st = "open"

\* C6 (as claimed): with a chain of one SOCKS5 hop whose reply bytes are
\* 05 05 00 01 00 00 00 00 00 00, the session fails with RequestFailed(5) and
\* the client gets no reply.
C6_Original ==
    (Len(chain) = 1 /\ chain[1].variant = "Socks5" /\ up_in = S5Frame /\ EndedOnReply)
        => (outcome = Outcome("RequestFailed", 5) /\ NoReplyFrameToClient)

\* C6 (amended): with a chain of one SOCKS5 hop, when the hop sends the method
\* reply 05 00 and then 05 05 00 01 00 00 00 00 00 00, the session fails with
\* RequestFailed(5); when it sends those ten bytes alone, their first two are
\* read as the method reply and the session fails with AuthRejected. In both
\* cases the client gets no reply frame and the sockets are closed.
C6_UpstreamFailure ==
    (Len(chain) = 1 /\ chain[1].variant = "Socks5" /\ EndedOnReply) =>
        /\ up_in = <<5, 0>> \o S5Frame =>
              /\ outcome = Outcome("RequestFailed", 5)
              /\ NoReplyFrameToClient /\ open_socks = {}
        /\ up_in = S5Frame =>
              /\ outcome = Outcome("AuthRejected", 0)
              /\ NoReplyFrameToClient /\ open_socks = {}

\* C6 witness: the amended scenario has run to its end.
C6_Witness ==
    /\ Len(chain) = 1 /\ chain[1].variant = "Socks5" /\ EndedOnReply
    /\ up_in = <<5, 0>> \o S5Frame
    /\ outcome = Outcome("RequestFailed", 5)

\* C7 (as claimed): whenever the relay is back at its select!, the bytes each
\* destination socket has accepted are exactly the bytes read from the source.
C7_RelayFidelity ==
    pc = "relay" => relay_wr = relay_rd

\* A read on the socket would return now: bytes, EOF or an error.
Readable(in, pos, st) == ReadNums(in, pos, st) # {}

AtEof(in, pos, st) == st = "eof" /\ pos = Len(in)

\* C8: a relay step that ends the session ends it with success exactly on a
\* read that returns EOF, and with the I/O error on a failed read or write;
\* when a read returns EOF and the other socket has nothing to read, the next
\* step of the relay is that end; after the end nothing is forwarded.
C8_Step ==
    /\ (pc \in {"relay", "relay_client_write", "relay_proxy_write"} /\ pc' = "done") =>
          \/ /\ outcome' = Outcome("Ok", 0)
             /\ pc = "relay"
             /\ AtEof(cl_in, cl_pos, cl_st) \/ AtEof(up_in, up_pos, up_st)
          \/ /\ outcome' = Outcome("IOError", 0)
             /\ \/ pc = "relay" /\ (cl_st = "err" \/ up_st = "err")
                \/ pc = "relay_client_write" /\ cl_st = "err"
                \/ pc = "relay_proxy_write" /\ up_st = "err"
    /\ (/\ pc = "relay" /\ pc' # pc
        /\ \/ AtEof(cl_in, cl_pos, cl_st) /\ ~ Readable(up_in, up_pos, up_st)
           \/ AtEof(up_in, up_pos, up_st) /\ ~ Readable(cl_in, cl_pos, cl_st))
          => (pc' = "done" /\ outcome' = Outcome("Ok", 0))
    /\ (pc' = "done" /\ outcome'.e \in {"Ok", "IOError"} /\ pc # "done") =>
          (client_out' = client_out /\ upstream_out' = upstream_out /\ open_socks' = {})
    /\ pc = "done" =>
          (client_out' = client_out /\ upstream_out' = upstream_out /\ pc' = "done"
           /\ outcome' = outcome)

C8_RelayTermination == [][C8_Step]_vars

\* C8 witness: the relay has forwarded bytes and then ended on EOF.
C8_Witness ==
    /\ pc = "done" /\ outcome = Outcome("Ok", 0)
    /\ relay_wr.u2c # <<>> /\ AtEof(cl_in, cl_pos, cl_st)

\* C9 (as claimed): once either socket has reached EOF or failed, the session
\* eventually terminates with both sockets closed.
C9_EventuallyClosed ==
    (cl_st # "open" \/ up_st # "open") ~> (pc = "done" /\ open_socks = {})

\* C10 (as claimed): the relay is never without a step to take while one
\* socket is readable and its opposite socket is writable.
C10_NoBlockedDirection ==
    (/\ pc \in {"relay", "relay_client_write", "relay_proxy_write"}
     /\ \/ Readable(up_in, up_pos, up_st) /\ cl_wr /\ cl_st # "err"
        \/ Readable(cl_in, cl_pos, cl_st) /\ up_wr /\ up_st # "err")
        => ENABLED SessionStep

\* What a SOCKS5 client has been sent before its command reply: the method
\* reply 05 00; a SOCKS4 client, nothing.
AuthPrefix == IF version = 5 THEN <<5, 0>> ELSE <<>>

\* Every hop's reply has been read to its end.
AllRepliesParsed ==
    LET e == ExpectedReads(chain, 1) IN
    /\ chain # <<>> /\ Len(reads) = Len(e)
    /\ \A j \in 1..Len(e) : reads[j].n = e[j].len
    /\ bnd # NoAddr

\* C11 (as claimed): the steps of a session occur in the order version
\* detect, request parse, chain planning, chain establishment, client reply,
\* relay: each step's result exists only when the previous step's does; the
\* reply frame is written to the client only after the replies of all hops
\* have been parsed; and no payload byte is forwarded, in either direction,
\* before the reply frame has been written to the client.
C11_StepOrder ==
    /\ command # NoCommand => version # 0
    /\ chain # <<>> => command # NoCommand
    /\ connections # <<>> => chain # <<>>
    /\ est_sent # <<>> => connections # <<>>
    /\ reads # <<>> => est_sent # <<>>
    /\ reply_buf # <<>> => AllRepliesParsed
    /\ Len(client_out) > Len(AuthPrefix) => AllRepliesParsed
    /\ (relay_wr.c2u # <<>> \/ relay_wr.u2c # <<>>) =>
          /\ reply_buf # <<>>
          /\ IsPrefix(AuthPrefix \o reply_buf, client_out)

\* The first byte the client sent has been consumed.
FirstByteRead == cl_pos >= 1

\* C12: the version detector consumes one byte b; b = 4 selects SOCKS4 and
\* b = 5 SOCKS5; every other b ends the session with UnsupportedVersion after
\* that one byte, nothing written to the client and no upstream connection.
\* The variant's parser starts at the next byte: the SOCKS4 command's kind,
\* port and address are bytes 2, 3-4 and 5-8 of the client's stream, and the
\* SOCKS5 negotiation takes byte 2 for NMETHODS.
C12_VersionDetector ==
    /\ pc \in {"s4_command", "s5_auth_request"} => cl_pos = 1
    /\ pc = "read_version" => (cl_pos = 0 /\ version = 0)
    /\ FirstByteRead =>
          /\ cl_in[1] = 4 => version = 4
          /\ cl_in[1] = 5 => version = 5
          /\ cl_in[1] \notin {4, 5} =>
                /\ version = 0 /\ cl_pos = 1
                /\ pc = "done" /\ outcome = Outcome("UnsupportedVersion", 0)
                /\ client_out = <<>> /\ connections = <<>> /\ upstream_out = <<>>
                /\ open_socks = {}
    /\ outcome.e = "UnsupportedVersion" => (FirstByteRead /\ cl_in[1] \notin {4, 5})
    /\ (version = 4 /\ command # NoCommand) =>
          /\ cl_in[2] = (IF command.kind = "Connect" THEN 1 ELSE 2)
          /\ SubSeq(cl_in, 3, 4) = PortOctets(command.port)
          /\ SubSeq(cl_in, 5, 8) = IpOctets(command.ip)
    /\ (version = 5 /\ pc \in {"s5_auth_reply", "s5_command"}) =>
          cl_pos = 2 + cl_in[2]

\* C12 witness: the byte 255 was read and refused.
C12_Witness ==
    /\ pc = "done" /\ outcome = Outcome("UnsupportedVersion", 0)
    /\ cl_in = <<255>> /\ cl_pos = 1

\* The methods a SOCKS5 client offered, once the negotiation has consumed them.
MethodsRead == version = 5 /\ cl_pos >= 2 /\ cl_pos >= 2 + cl_in[2]
OfferedMethods == SubSeq(cl_in, 3, 2 + cl_in[2])
OffersNoAuth == \E i \in 1..Len(OfferedMethods) : OfferedMethods[i] = 0

\* C13: a SOCKS5 negotiation is accepted exactly when one of the NMETHODS
\* offered methods is 0 (never when NMETHODS = 0). When it is refused the
\* session ends with UnsupportedAuthMethod: nothing is written to the client,
\* no chain is materialized, no upstream connection is opened. When it is
\* accepted, 05 00 is written to the client before the command is read.
C13_MethodNegotiation ==
    /\ (MethodsRead /\ ~ OffersNoAuth) =>
          /\ pc = "done" /\ outcome = Outcome("UnsupportedAuthMethod", 0)
          /\ cl_pos = 2 + cl_in[2]
          /\ client_out = <<>> /\ command = NoCommand
          /\ chain = <<>> /\ connections = <<>> /\ upstream_out = <<>>
    /\ (MethodsRead /\ OffersNoAuth) =>
          /\ outcome.e # "UnsupportedAuthMethod"
          /\ \/ pc = "s5_auth_reply" /\ client_out = <<>>
             \/ IsPrefix(<<5, 0>>, client_out)
             \/ pc = "done" /\ outcome = Outcome("IOError", 0) /\ client_out = <<>>
    /\ outcome.e = "UnsupportedAuthMethod" => (MethodsRead /\ ~ OffersNoAuth)
    /\ (version = 5 /\ client_out # <<>>) => (MethodsRead /\ OffersNoAuth)
    /\ pc = "s5_command" => (client_out = <<5, 0>> /\ cl_pos = 2 + cl_in[2])
    /\ (version = 5 /\ cl_pos > 2 + cl_in[2]) => IsPrefix(<<5, 0>>, client_out)

\* C13 witness: a client offering no method at all (NMETHODS = 0) was refused.
C13_Witness ==
    /\ outcome = Outcome("UnsupportedAuthMethod", 0)
    /\ cl_in[2] = 0 /\ cl_pos = 2

\* The command the client asked for, as the octets of its own request: the
\* command byte, the address and the port. A SOCKS5 client's request frame
\* follows its method negotiation.
ClientFrameAt == IF version = 4 THEN 0 ELSE 2 + cl_in[2]
ClientCmdByte == cl_in[ClientFrameAt + 2]
ClientIpOctets ==
    IF version = 4 THEN SubSeq(cl_in, 5, 8)
    ELSE SubSeq(cl_in, ClientFrameAt + 5, ClientFrameAt + 8)
ClientPortOctets ==
    IF version = 4 THEN SubSeq(cl_in, 3, 4)
    ELSE SubSeq(cl_in, ClientFrameAt + 9, ClientFrameAt + 10)

\* The command byte, address and port octets of the request that starts at
\* offset p of the stream b, addressed to a hop of the given variant (after
\* the three bytes of method negotiation when the hop is SOCKS5).
RequestCmdByte(b, p, variant) == IF variant = "Socks4" THEN b[p + 2] ELSE b[p + 5]
RequestIpOctets(b, p, variant) ==
    IF variant = "Socks4" THEN SubSeq(b, p + 5, p + 8) ELSE SubSeq(b, p + 8, p + 11)
RequestPortOctets(b, p, variant) ==
    IF variant = "Socks4" THEN SubSeq(b, p + 3, p + 4) ELSE SubSeq(b, p + 12, p + 13)

\* C17: in the establishment stream, the request addressed to the last hop
\* carries the command byte, the address and the port of the client's own
\* request, whatever the variants of the client and of the last hop; every
\* request addressed to an earlier hop is a CONNECT.
C17_TerminalRequest ==
    connections # <<>> =>
        LET n == Len(chain)
            p == HopRequestEnd(chain, n - 1)
        IN /\ Len(buf) = HopRequestEnd(chain, n)
           /\ RequestCmdByte(buf, p, chain[n].variant) = ClientCmdByte
           /\ ClientCmdByte \in {1, 2}
           /\ RequestIpOctets(buf, p, chain[n].variant) = ClientIpOctets
           /\ RequestPortOctets(buf, p, chain[n].variant) = ClientPortOctets
           /\ \A i \in 1..(n - 1) :
                 RequestCmdByte(buf, HopRequestEnd(chain, i - 1), chain[i].variant) = 1

\* C17 witness: a SOCKS5 client's BIND through a SOCKS5 hop to a last hop
\* that is SOCKS4.
C17_Witness ==
    /\ version = 5 /\ Len(chain) = 2 /\ connections # <<>>
    /\ chain[1].variant = "Socks5" /\ chain[2].variant = "Socks4"
    /\ ClientCmdByte = 2 /\ buf[15] = 2 /\ buf[5] = 1

\* C18: a materialized chain has as many hops as the specification has
\* stages and its i-th hop is an entry of the i-th stage; once materialized
\* it stays the same for the rest of the session (the connection, the
\* outbound stream and the reply parsing use that one chain), and the
\* specification is never changed.
C18_Step ==
    /\ chain' # <<>> =>
          /\ Len(chain') = Len(chains)
          /\ \A i \in 1..Len(chains) : chain'[i] \in chains[i]
    /\ chain # <<>> => chain' = chain
    /\ chains' = chains
    /\ connections' # <<>> => connections' = << chain'[1] >>
    /\ buf' # <<>> => Len(buf') = HopRequestEnd(chain', Len(chain'))
    /\ \A j \in 1..Len(reads') :
          /\ reads'[j].hop \in 1..Len(chain')
          /\ (reads'[j].frame = "s4reply") = (chain'[reads'[j].hop].variant = "Socks4")

C18_ChainPlanner == [][C18_Step]_vars

\* C18 witness: two stages, the SOCKS5 entry of the first and the SOCKS4 entry
\* of the second, used up to the last reply.
C18_Witness ==
    /\ Len(chains) = 2 /\ Len(chain) = 2
    /\ chain[1].variant = "Socks5" /\ chain[2].variant = "Socks4"
    /\ chain[1] \in StageEntries(1) /\ chain[2] \in StageEntries(2)
    /\ Len(reads) = 3 /\ bnd # NoAddr

\* The k-th byte of the SOCKS5 client's command frame.
S5Field(k) == cl_in[ClientFrameAt + k]

\* The SOCKS5 request reader has consumed the k-th byte of the frame.
S5FieldRead(k) == version = 5 /\ cl_pos >= 2 /\ cl_pos >= ClientFrameAt + k

EndedBeforePlanning ==
    /\ pc = "done" /\ command = NoCommand
    /\ chain = <<>> /\ connections = <<>> /\ upstream_out = <<>>
    /\ client_out = <<5, 0>> /\ open_socks = {}

\* C20: the SOCKS5 request reader fails with ProtocolError on VER # 5, on a
\* CMD other than 1 and 2 and on RSV # 0, and with UnsupportedCommand on
\* ATYP # 1 when the three fields before it are valid; each failure ends the
\* session before a chain is planned or a connection opened. It returns a
\* command only from a frame whose four fields are valid. (reads = <<>>: the
\* error does not come from a hop's reply.)
C20_RequestReader ==
    /\ (S5FieldRead(1) /\ S5Field(1) # 5) =>
          (outcome = Outcome("ProtocolError", 0) /\ cl_pos = ClientFrameAt + 1
           /\ EndedBeforePlanning)
    /\ (S5FieldRead(2) /\ S5Field(2) \notin {1, 2}) =>
          (outcome = Outcome("ProtocolError", 0) /\ cl_pos = ClientFrameAt + 2
           /\ EndedBeforePlanning)
    /\ (S5FieldRead(3) /\ S5Field(3) # 0) =>
          (outcome = Outcome("ProtocolError", 0) /\ cl_pos = ClientFrameAt + 3
           /\ EndedBeforePlanning)
    /\ (S5FieldRead(4) /\ S5Field(4) # 1) =>
          (outcome = Outcome("UnsupportedCommand", 0) /\ cl_pos = ClientFrameAt + 4
           /\ EndedBeforePlanning)
    /\ (version = 5 /\ outcome.e = "ProtocolError" /\ reads = <<>>) =>
          \E k \in 1..3 : /\ cl_pos = ClientFrameAt + k
                           /\ \/ k = 1 /\ S5Field(1) # 5
                              \/ k = 2 /\ S5Field(2) \notin {1, 2}
                              \/ k = 3 /\ S5Field(3) # 0
    /\ (outcome.e = "UnsupportedCommand" /\ reads = <<>>) =>
          /\ version = 5 /\ cl_pos = ClientFrameAt + 4
          /\ S5Field(1) = 5 /\ S5Field(2) \in {1, 2} /\ S5Field(3) = 0
          /\ S5Field(4) # 1
    /\ (version = 5 /\ command # NoCommand) =>
          /\ S5Field(1) = 5 /\ S5Field(3) = 0 /\ S5Field(4) = 1
          /\ S5Field(2) = (IF command.kind = "Connect" THEN 1 ELSE 2)
          /\ ClientIpOctets = IpOctets(command.ip)
          /\ ClientPortOctets = PortOctets(command.port)

\* C20 witness: a frame 05 02 00 04 .. (valid VER, CMD, RSV; ATYP = 4) was
\* refused with UnsupportedCommand.
C20_Witness ==
    /\ outcome = Outcome("UnsupportedCommand", 0)
    /\ S5Field(2) = 2 /\ S5Field(4) = 4 /\ EndedBeforePlanning

\* A codec step has ended on a frame of the given type, read the given way.
Decoded(frame, path) ==
    codec.pc = "done" /\ codec.frame = frame /\ codec.path = path

\* The read returned the value that was written.
YieldsValue ==
    /\ codec.result.st = "ok"
    /\ codec.result.ip = codec.value.ip
    /\ codec.result.port = codec.value.port
    /\ (codec.value.kind # "none" => codec.result.kind = codec.value.kind)

\* The bytes of the stream the reads have not consumed are the tail.
TailLeft == SubSeq(codec.stream, codec.pos + 1, Len(codec.stream)) = codec.tail

\* C14 (as claimed): for every SOCKS4 and every SOCKS5 command C, the reader
\* of the variant, given the bytes its writer produced for C, yields C.
C14_Original ==
    (Decoded("s4command", "whole") \/ Decoded("s5command", "whole")) => YieldsValue

\* C14 (amended): for every SOCKS5 command C, Socks5Command::read given the
\* bytes Socks5Command::write produced yields C; for every SOCKS4 command C,
\* Socks4Command::read yields C from the bytes Socks4Command::write produced
\* once read_version has consumed their first byte (04, selecting SOCKS4), and
\* fails with ProtocolError when given them from the first byte.
C14_CommandRoundTrip ==
    /\ Decoded("s5command", "whole") =>
          (YieldsValue /\ codec.pos = 10 /\ TailLeft)
    /\ Decoded("s4command", "after_version") =>
          (YieldsValue /\ codec.pos = 9 /\ TailLeft)
    /\ Decoded("s4command", "whole") =>
          (codec.result.st = "err" /\ codec.result.err = "ProtocolError")
    /\ (codec.pc = "read_command" /\ codec.frame = "s4command") =>
          (codec.pos = 1 /\ codec.stream[1] = 4)

\* C14 witness: a SOCKS4 BIND to the largest address and port, written, then
\* read after the version byte.
C14_Witness ==
    /\ Decoded("s4command", "after_version")
    /\ codec.value = CodecValue("Bind", 2147483647, 65535)
    /\ codec.result.st = "ok" /\ codec.tail = <<7, 0>>

\* C15: for every reply R = (address, port), Socks4Reply::read given the
\* bytes Socks4Reply::write produced yields R and consumes those 8 bytes, and
\* Socks5Reply::read given the bytes Socks5Reply::write produced yields R and
\* consumes those 10 bytes; what follows them in the stream is left unread.
C15_ReplyRoundTrip ==
    /\ Decoded("s4reply", "whole") =>
          (YieldsValue /\ codec.result.n = 8 /\ codec.pos = 8 /\ TailLeft
           /\ Len(codec.stream) = 8 + Len(codec.tail))
    /\ Decoded("s5reply", "whole") =>
          (YieldsValue /\ codec.result.n = 10 /\ codec.pos = 10 /\ TailLeft
           /\ Len(codec.stream) = 10 + Len(codec.tail))

\* C15 witness: the SOCKS5 reply 127.0.0.1:256, followed by two more bytes.
C15_Witness ==
    /\ Decoded("s5reply", "whole")
    /\ codec.value = CodecValue("none", 2130706433, 256)
    /\ codec.result.st = "ok" /\ codec.tail = <<7, 0>>

\* C16: a SOCKS4 request with a valid command byte parses to the command
\* (kind, address, port) of its first eight bytes for every USERID of k >= 0
\* non-zero bytes; the reader consumes the USERID and the zero byte that ends
\* it, 9 + k bytes with the version byte, and nothing after it.
C16_UserIdTolerance ==
    Decoded("s4request", "after_version") =>
        /\ YieldsValue
        /\ codec.pos = 9 + Len(codec.userid)
        /\ TailLeft

\* C16 witness: a USERID of 255 bytes, every one 255, and a tail that starts
\* with a zero byte.
C16_Witness ==
    /\ Decoded("s4request", "after_version")
    /\ Len(codec.userid) = 255 /\ codec.userid[255] = 255
    /\ codec.tail = <<0>> /\ codec.result.st = "ok" /\ codec.pos = 264

\* Task i ends with an error in this step.
EndsWithError(i) ==
    /\ server.sessions[i].pc \notin {"done", "aborted"}
    /\ server'.sessions[i].pc = "done"
    /\ server'.sessions[i].e # "Ok"

\* C19: a step in which a session ends with an error, at whichever await,
\* changes the state of no other session, does not stop the acceptor (its
\* position stays what it was, no session is added or removed) and leaves the
\* shared configuration as it was; the sockets of that session are closed.
C19_Step ==
    \A i \in 1..Len(server.sessions) :
        EndsWithError(i) =>
            /\ Len(server'.sessions) = Len(server.sessions)
            /\ \A j \in 1..Len(server.sessions) :
                  j # i => server'.sessions[j] = server.sessions[j]
            /\ server'.pc = server.pc
            /\ chains' = chains
            /\ server'.sessions[i].socks = {}

\* The acceptor at accept() takes the next client, and every running task
\* has a step to take, whatever the other sessions ended with.
C19_AllLive ==
    /\ (server.pc = "accept" /\ Len(server.sessions) < MaxSessions) =>
          ENABLED ServerAccept
    /\ server.pc = "accept" =>
          \A i \in 1..Len(server.sessions) :
              server.sessions[i].pc \notin {"done", "aborted"} => ENABLED TaskStep(i)

C19_SessionIsolation == [] C19_AllLive /\ [][C19_Step]_vars

\* C19 witness: the first session ended with RequestFailed while waiting for
\* the chain's replies; after that the acceptor accepted a second client,
\* whose session is relaying.
C19_Witness ==
    /\ server.pc = "accept" /\ Len(server.sessions) = 2
    /\ server.sessions[1].pc = "done" /\ server.sessions[1].e = "RequestFailed"
    /\ server.sessions[2].pc = "relay"
    /\ \E a, b \in 1..Len(server.log) :
          /\ a < b
          /\ server.log[a] = LogLine("Error", 1, "RequestFailed")
          /\ server.log[b] = LogLine("Accepted", 2, "none")

\* The method-negotiation reply read by reads[j]: its VER and METHOD bytes.
MethodReplyVer(j) == up_in[reads[j].from + 1]
MethodReplyMethod(j) == up_in[reads[j].from + 2]

\* The session ended at reads[j] with error e after consuming n bytes of that
\* reply: no further reply is read and the client got no reply frame.
EndedAtRead(j, e, n) ==
    /\ j = Len(reads)
    /\ pc = "done" /\ outcome.e = e
    /\ up_pos = reads[j].from + n
    /\ NoReplyFrameToClient
    /\ open_socks = {}

\* C21: the establishment buffer holds the method list 05 01 00 at the start
\* of the request of every SOCKS5 hop; the reply frame of a SOCKS5 hop is read
\* only right after that hop's 2-byte method reply was read as VER = 5,
\* METHOD = 0; a method reply with VER other than 5 ends the session with
\* ProtocolError and one with METHOD other than 0 with AuthRejected, that read
\* being the last and no reply frame being written to the client. A session
\* ends with AuthRejected only so.
C21_HopMethodNegotiation ==
    /\ buf # <<>> =>
          \A i \in 1..Len(chain) :
              chain[i].variant = "Socks5" =>
                  LET o == HopRequestEnd(chain, i - 1) IN
                  /\ Len(buf) >= o + 3
                  /\ SubSeq(buf, o + 1, o + 3) = <<5, 1, 0>>
    /\ \A j \in 1..Len(reads) :
          /\ reads[j].frame = "s5method" => chain[reads[j].hop].variant = "Socks5"
          /\ reads[j].frame = "s5reply" =>
                /\ j > 1
                /\ reads[j - 1] = ReadEntry(reads[j].hop, "s5method", reads[j].from - 2, 2)
                /\ MethodReplyVer(j - 1) = 5
                /\ MethodReplyMethod(j - 1) = 0
          /\ (reads[j].frame = "s5method" /\ reads[j].n >= 1 /\ MethodReplyVer(j) # 5) =>
                EndedAtRead(j, "ProtocolError", 1)
          /\ (reads[j].frame = "s5method" /\ reads[j].n = 2 /\ MethodReplyMethod(j) # 0) =>
                EndedAtRead(j, "AuthRejected", 2)
    /\ outcome.e = "AuthRejected" =>
          /\ reads # <<>>
          /\ reads[Len(reads)].frame = "s5method" /\ reads[Len(reads)].n = 2
          /\ MethodReplyMethod(Len(reads)) # 0

\* C21 witness: two SOCKS5 hops; the first accepts the method and grants the
\* request, the second selects method 255, and the session has ended with
\* AuthRejected while the client holds the method reply only.
C21_Witness ==
    /\ Len(chain) = 2 /\ chain[1].variant = "Socks5" /\ chain[2].variant = "Socks5"
    /\ Len(est_sent) >= 16
    /\ SubSeq(est_sent, 1, 3) = <<5, 1, 0>> /\ SubSeq(est_sent, 14, 16) = <<5, 1, 0>>
    /\ Len(reads) = 3 /\ reads[3] = ReadEntry(2, "s5method", 12, 2)
    /\ MethodReplyMethod(3) = 255
    /\ outcome.e = "AuthRejected"
    /\ version = 5 /\ client_out = <<5, 0>>

\* The connection attempt of the session failed: it ended after planning its
\* chain and without a connection.
ConnectFailed == pc = "done" /\ chain # <<>> /\ connections = <<>>

\* C22: a session has at most one upstream connection, and it is to the first
\* hop of its chain, an entry of the first stage; the connection is attempted
\* (and exists) only once the client's request has been parsed and the chain
\* planned; without a connection nothing has been built for, sent to or read
\* from upstream and no reply frame exists; when the attempt failed the
\* session has ended with an I/O error, has sent no establishment byte and
\* has written no command reply frame to the client.
C22_SingleUpstreamConnection ==
    /\ Len(connections) <= 1
    /\ connections # <<>> =>
          /\ chain # <<>>
          /\ connections[1] = chain[1]
          /\ connections[1] \in chains[1]
    /\ "upstream" \in open_socks => connections # <<>>
    /\ (pc = "connect" \/ connections # <<>>) =>
          /\ version \in {4, 5}
          /\ command # NoCommand
          /\ chain # <<>>
          /\ (pc = "connect" => client_out = AuthPrefix)
    /\ connections = <<>> =>
          /\ buf = <<>> /\ est_sent = <<>> /\ upstream_out = <<>>
          /\ up_in = <<>> /\ reads = <<>>
          /\ reply_buf = <<>>
    /\ ConnectFailed =>
          /\ outcome = Outcome("IOError", 0)
          /\ upstream_out = <<>>
          /\ NoReplyFrameToClient
          /\ open_socks = {}

\* C22 witness: a SOCKS5 client whose request was parsed and for which a chain
\* of two hops was planned; the connection to the first hop failed, and the
\* session has ended with nothing sent upstream and only the method reply
\* sent to the client.
C22_Witness ==
    /\ ConnectFailed /\ outcome.e = "IOError"
    /\ version = 5 /\ command.kind = "Connect" /\ Len(chain) = 2
    /\ upstream_out = <<>> /\ client_out = <<5, 0>>

\* C22, the connection made: a chain of two different hops, and the one
\* connection is to the first, while the replies of both hops have been read.
C22_WitnessConnected ==
    /\ Len(chain) = 2 /\ chain[1] # chain[2]
    /\ connections = << chain[1] >>
    /\ [ip |-> command.ip, port |-> command.port] #
          [ip |-> chain[1].ip, port |-> chain[1].port]
    /\ pc = "relay" /\ est_sent = buf

====
